---- MODULE Spec2Model ----
(***************************************************************************)
(* Model of the cpi-token-transfer program (programs/cpi-token-transfer/   *)
(* src/lib.rs): the five instructions initialize, transfer_tokens,         *)
(* transfer_with_fee, deposit and vault_transfer, each as one atomic       *)
(* transaction made of the account validation of its Accounts struct, the  *)
(* handler body and the token-program calls the handler issues.            *)
(*                                                                         *)
(* u64 is modelled with WordBits bits instead of 64 (TLC's integers are    *)
(* 32 bits wide); the fee constants keep their values, so the product      *)
(* amount * PROTOCOL_FEE_BPS overflows inside the modelled range.          *)
(***************************************************************************)
EXTENDS Integers, Sequences, FiniteSets, TLC

VARIABLES bal, cfg, last, hist, steps

vars == <<bal, cfg, last, hist, steps>>

----------------------------------------------------------------------------
(* Bounds *)

WordBits == 20

MaxBump == 2

\* Instructions per behaviour.
MaxSteps == 2

----------------------------------------------------------------------------
(* Program constants *)

PROTOCOL_FEE_BPS == 100

BPS_DENOMINATOR == 10000

PROTOCOL_CONFIG_SEED == "protocol_config"

VAULT_AUTHORITY_SEED == "vault_authority"

\* Largest value of the amount type (u64, scaled to WordBits bits).
U64_MAX == 2^WordBits - 1

\* Values of a bump (u8, scaled to 0..MaxBump).
Bumps == 0..MaxBump

----------------------------------------------------------------------------
(* Identities (Pubkey) *)

Users == {"u1", "u2"}

\* The key of a wallet: it can sign a transaction.
UserKey(u) == [kind |-> "user", tag |-> "", of |-> u, bump |-> 0]

\* The address the hash of (seeds, bump) yields: distinct inputs give
\* distinct addresses.
PdaKey(tag, of, b) == [kind |-> "pda", tag |-> tag, of |-> of, bump |-> b]

NoKey == [kind |-> "none", tag |-> "", of |-> "", bump |-> 0]

\* Whether the hash of (seeds, bump) falls on the curve, in which case it is
\* no program address.  One fixed outcome per input, as for a hash: the
\* highest bump is on the curve for u1's vault authority, so that the
\* canonical bump is not the largest one for every seed.
OnCurve(tag, of, b) == tag = VAULT_AUTHORITY_SEED /\ of = "u1" /\ b = MaxBump

\* Pubkey::create_program_address: the address, or an error (NoKey).
CreateProgramAddress(tag, of, b) ==
    IF b \notin Bumps \/ OnCurve(tag, of, b) THEN NoKey ELSE PdaKey(tag, of, b)

\* The bump Pubkey::find_program_address returns: the highest one that yields
\* an address.
CanonicalBump(tag, of) ==
    CHOOSE b \in Bumps :
        /\ ~OnCurve(tag, of, b)
        /\ \A c \in Bumps : c > b => OnCurve(tag, of, c)

\* Pubkey::find_program_address, as the `seeds = [...], bump` constraints
\* use it.
FindProgramAddress(tag, of) == PdaKey(tag, of, CanonicalBump(tag, of))

----------------------------------------------------------------------------
(* Token accounts (anchor_spl::token::TokenAccount): owner and mint are    *)
(* never changed by this program, the amount only through token::transfer. *)

Accounts == {"a1", "a2", "a3", "f1", "v1"}

NoAccount == "none"

TokenOwner(a) ==
    CASE a = "a1" -> UserKey("u1")
      [] a = "a2" -> UserKey("u2")
      [] a = "a3" -> UserKey("u1")
      [] a = "f1" -> UserKey("u2")
      [] a = "v1" -> FindProgramAddress(VAULT_AUTHORITY_SEED, "u1")

TokenMint(a) == IF a = "a3" THEN "m2" ELSE "m1"

\* The least amount whose product with PROTOCOL_FEE_BPS exceeds U64_MAX.
Big == U64_MAX \div PROTOCOL_FEE_BPS + 1

\* The amounts at the start; every mint's supply is at most U64_MAX, as the
\* token program keeps it.
InitialBalance(a) ==
    CASE a = "a1" -> 2 * Big
      [] a = "a2" -> 1000
      [] a = "a3" -> 1000
      [] a = "f1" -> 0
      [] a = "v1" -> 0

----------------------------------------------------------------------------
(* The token program's transfer instruction, reached by token::transfer    *)
(* through a cross-program invocation.  A leg names the accounts of the    *)
(* Transfer struct and the amount; signers are the keys that have signed:  *)
(* the transaction's signer and the addresses derived from signer seeds.   *)

Leg(from, to, authority, amount) ==
    [from |-> from, to |-> to, authority |-> authority, amount |-> amount]

\* The balances after the leg, or the rejection of the call.  The call is
\* rejected when the authority has not signed, when the source holds less
\* than the amount, when the mints differ or when the authority is not the
\* source's owner; a transfer from an account to itself changes nothing.
TokenTransfer(b, leg, signers) ==
    IF \/ leg.authority \notin signers
       \/ b[leg.from] < leg.amount
       \/ TokenMint(leg.from) # TokenMint(leg.to)
       \/ TokenOwner(leg.from) # leg.authority
    THEN [ok |-> FALSE, bal |-> b]
    ELSE IF leg.from = leg.to
    THEN [ok |-> TRUE, bal |-> b]
    ELSE IF b[leg.to] + leg.amount > U64_MAX
    THEN [ok |-> FALSE, bal |-> b]
    ELSE [ok |-> TRUE,
          bal |-> [b EXCEPT ![leg.from] = @ - leg.amount,
                            ![leg.to] = @ + leg.amount]]

----------------------------------------------------------------------------
(* Results (Result<()>): "Ok", a variant of CpiError, the framework's      *)
(* error of a constraint that names no CpiError ("ConstraintSeeds" for     *)
(* seeds, "AccountInUse" for init), or "LedgerRejected" for the error that *)
(* token::transfer returns and `?` propagates.                             *)
(* The typed accounts are taken as the framework admits them: a Signer has *)
(* signed, an Account<TokenAccount> is a token account and the             *)
(* Program<Token> is the token program, so that InvalidProgram, the error  *)
(* of the address constraint on token_program, is never returned.  The     *)
(* constraints do not ask the accounts of an instruction to differ.        *)

CpiError == {"Unauthorized", "InvalidMint", "InsufficientBalance",
             "InvalidProgram", "Overflow"}

\* What an instruction returns: its result, the balances it has written and
\* the token::transfer calls it has issued, in order.
Outcome(result, b, legs) == [result |-> result, bal |-> b, legs |-> legs]

\* The host runs an instruction as one transaction: what it has written is
\* kept when it returns Ok and discarded when it returns an error.
Commit(b, out) == IF out.result = "Ok" THEN out.bal ELSE b

----------------------------------------------------------------------------
(* Checked u64 arithmetic: None is modelled as -1. *)

None == 0 - 1

\* Mutant: the product wraps instead of reporting the overflow.
wrapping_mul(a, b) == IF a = None THEN None ELSE (a * b) % (U64_MAX + 1)

checked_mul(a, b) == IF a = None \/ a * b > U64_MAX THEN None ELSE a * b

\* Mutant: the quotient is rounded up.
checked_div_ceil(a, b) ==
    IF a = None \/ b = 0 THEN None ELSE (a + b - 1) \div b

checked_div(a, b) == IF a = None \/ b = 0 THEN None ELSE a \div b

checked_sub(a, b) == IF a = None \/ b = None \/ a < b THEN None ELSE a - b

----------------------------------------------------------------------------
(* transfer_tokens *)

\* Mutant: the source need not be owned by the signer.
TransferTokensAccountsAnyone(user, from, to) == "Ok"

\* The constraints of the TransferTokens accounts.
TransferTokensAccounts(user, from, to) ==
    IF TokenOwner(from) # UserKey(user) THEN "Unauthorized" ELSE "Ok"

\* Mutant: the mints are not compared.
transfer_tokens_any_mint(b, user, from, to, amount) ==
    IF ~(b[from] >= amount)
    THEN Outcome("InsufficientBalance", b, <<>>)
    ELSE IF FALSE
    THEN Outcome("InvalidMint", b, <<>>)
    ELSE LET leg == Leg(from, to, UserKey(user), amount)
             r == TokenTransfer(b, leg, {UserKey(user)})
         IN  IF r.ok THEN Outcome("Ok", r.bal, <<leg>>)
             ELSE Outcome("LedgerRejected", r.bal, <<leg>>)

\* The handler, on validated accounts.
transfer_tokens(b, user, from, to, amount) ==
    IF ~(b[from] >= amount)
    THEN Outcome("InsufficientBalance", b, <<>>)
    ELSE IF ~(TokenMint(from) = TokenMint(to))
    THEN Outcome("InvalidMint", b, <<>>)
    ELSE LET leg == Leg(from, to, UserKey(user), amount)
             r == TokenTransfer(b, leg, {UserKey(user)})
         IN  IF r.ok THEN Outcome("Ok", r.bal, <<leg>>)
             ELSE Outcome("LedgerRejected", r.bal, <<leg>>)

TransferTokensIx(b, user, from, to, amount) ==
    LET v == TransferTokensAccounts(user, from, to)
    IN  IF v # "Ok" THEN Outcome(v, b, <<>>)
        ELSE transfer_tokens(b, user, from, to, amount)

----------------------------------------------------------------------------
(* transfer_with_fee *)

\* The constraints of the TransferWithFee accounts.
TransferWithFeeAccounts(user, from, to, protocol_fee_account) ==
    IF TokenOwner(from) # UserKey(user) THEN "Unauthorized" ELSE "Ok"

\* fee = amount.checked_mul(PROTOCOL_FEE_BPS)?.checked_div(BPS_DENOMINATOR)?
FeeOf(amount) ==
    checked_div(checked_mul(amount, PROTOCOL_FEE_BPS), BPS_DENOMINATOR)

\* recipient_amount = amount.checked_sub(fee)?
RecipientAmountOf(amount) == checked_sub(amount, FeeOf(amount))

\* Mutant: the fee leg is issued for a fee of 0 too.
transfer_with_fee_zero_fee_leg(b, user, from, to, protocol_fee_account, amount) ==
    IF ~(b[from] >= amount)
    THEN Outcome("InsufficientBalance", b, <<>>)
    ELSE IF ~(TokenMint(to) = TokenMint(from))
    THEN Outcome("InvalidMint", b, <<>>)
    ELSE IF ~(TokenMint(protocol_fee_account) = TokenMint(from))
    THEN Outcome("InvalidMint", b, <<>>)
    ELSE LET fee == FeeOf(amount)
             recipient_amount == RecipientAmountOf(amount)
         IN
         IF fee = None \/ recipient_amount = None
         THEN Outcome("Overflow", b, <<>>)
         ELSE
         LET signers == {UserKey(user)}
             feeLeg == Leg(from, protocol_fee_account, UserKey(user), fee)
             r1 == IF fee >= 0 THEN TokenTransfer(b, feeLeg, signers)
                   ELSE [ok |-> TRUE, bal |-> b]
             legs1 == IF fee >= 0 THEN <<feeLeg>> ELSE <<>>
             toLeg == Leg(from, to, UserKey(user), recipient_amount)
             r2 == IF recipient_amount > 0
                   THEN TokenTransfer(r1.bal, toLeg, signers)
                   ELSE [ok |-> TRUE, bal |-> r1.bal]
             legs2 == IF recipient_amount > 0 THEN Append(legs1, toLeg)
                      ELSE legs1
         IN  IF ~r1.ok THEN Outcome("LedgerRejected", r1.bal, legs1)
             ELSE IF ~r2.ok THEN Outcome("LedgerRejected", r2.bal, legs2)
             ELSE Outcome("Ok", r2.bal, legs2)

\* Mutant: the recipient leg is skipped when a fee leg was issued.
transfer_with_fee_else_if(b, user, from, to, protocol_fee_account, amount) ==
    IF ~(b[from] >= amount)
    THEN Outcome("InsufficientBalance", b, <<>>)
    ELSE IF ~(TokenMint(to) = TokenMint(from))
    THEN Outcome("InvalidMint", b, <<>>)
    ELSE IF ~(TokenMint(protocol_fee_account) = TokenMint(from))
    THEN Outcome("InvalidMint", b, <<>>)
    ELSE LET fee == FeeOf(amount)
             recipient_amount == RecipientAmountOf(amount)
         IN
         IF fee = None \/ recipient_amount = None
         THEN Outcome("Overflow", b, <<>>)
         ELSE
         LET signers == {UserKey(user)}
             feeLeg == Leg(from, protocol_fee_account, UserKey(user), fee)
             r1 == IF fee > 0 THEN TokenTransfer(b, feeLeg, signers)
                   ELSE [ok |-> TRUE, bal |-> b]
             legs1 == IF fee > 0 THEN <<feeLeg>> ELSE <<>>
             toLeg == Leg(from, to, UserKey(user), recipient_amount)
             r2 == IF ~(fee > 0) /\ recipient_amount > 0
                   THEN TokenTransfer(r1.bal, toLeg, signers)
                   ELSE [ok |-> TRUE, bal |-> r1.bal]
             legs2 == IF ~(fee > 0) /\ recipient_amount > 0 THEN Append(legs1, toLeg)
                      ELSE legs1
         IN  IF ~r1.ok THEN Outcome("LedgerRejected", r1.bal, legs1)
             ELSE IF ~r2.ok THEN Outcome("LedgerRejected", r2.bal, legs2)
             ELSE Outcome("Ok", r2.bal, legs2)

\* The handler, on validated accounts.
transfer_with_fee(b, user, from, to, protocol_fee_account, amount) ==
    IF ~(b[from] >= amount)
    THEN Outcome("InsufficientBalance", b, <<>>)
    ELSE IF ~(TokenMint(to) = TokenMint(from))
    THEN Outcome("InvalidMint", b, <<>>)
    ELSE IF ~(TokenMint(protocol_fee_account) = TokenMint(from))
    THEN Outcome("InvalidMint", b, <<>>)
    ELSE LET fee == FeeOf(amount)
             recipient_amount == RecipientAmountOf(amount)
         IN
         IF fee = None \/ recipient_amount = None
         THEN Outcome("Overflow", b, <<>>)
         ELSE
         LET signers == {UserKey(user)}
             feeLeg == Leg(from, protocol_fee_account, UserKey(user), fee)
             r1 == IF fee > 0 THEN TokenTransfer(b, feeLeg, signers)
                   ELSE [ok |-> TRUE, bal |-> b]
             legs1 == IF fee > 0 THEN <<feeLeg>> ELSE <<>>
             toLeg == Leg(from, to, UserKey(user), recipient_amount)
             r2 == IF recipient_amount > 0
                   THEN TokenTransfer(r1.bal, toLeg, signers)
                   ELSE [ok |-> TRUE, bal |-> r1.bal]
             legs2 == IF recipient_amount > 0 THEN Append(legs1, toLeg)
                      ELSE legs1
         IN  IF ~r1.ok THEN Outcome("LedgerRejected", r1.bal, legs1)
             ELSE IF ~r2.ok THEN Outcome("LedgerRejected", r2.bal, legs2)
             ELSE Outcome("Ok", r2.bal, legs2)

TransferWithFeeIx(b, user, from, to, protocol_fee_account, amount) ==
    LET v == TransferWithFeeAccounts(user, from, to, protocol_fee_account)
    IN  IF v # "Ok" THEN Outcome(v, b, <<>>)
        ELSE transfer_with_fee(b, user, from, to, protocol_fee_account, amount)

----------------------------------------------------------------------------
(* deposit *)

\* The constraints of the Deposit accounts, in the order of its fields.
DepositAccounts(user, from, vault_authority, vault) ==
    IF TokenOwner(from) # UserKey(user) THEN "Unauthorized"
    ELSE IF vault_authority # FindProgramAddress(VAULT_AUTHORITY_SEED, user)
    THEN "ConstraintSeeds"
    ELSE IF TokenOwner(vault) # vault_authority THEN "Unauthorized"
    ELSE "Ok"

\* Mutant: the balance of the source is not checked.
deposit_unchecked(b, user, from, vault, amount) ==
    IF FALSE
    THEN Outcome("InsufficientBalance", b, <<>>)
    ELSE IF ~(TokenMint(from) = TokenMint(vault))
    THEN Outcome("InvalidMint", b, <<>>)
    ELSE LET leg == Leg(from, vault, UserKey(user), amount)
             r == TokenTransfer(b, leg, {UserKey(user)})
         IN  IF r.ok THEN Outcome("Ok", r.bal, <<leg>>)
             ELSE Outcome("LedgerRejected", r.bal, <<leg>>)

\* The handler, on validated accounts.
deposit(b, user, from, vault, amount) ==
    IF ~(b[from] >= amount)
    THEN Outcome("InsufficientBalance", b, <<>>)
    ELSE IF ~(TokenMint(from) = TokenMint(vault))
    THEN Outcome("InvalidMint", b, <<>>)
    ELSE LET leg == Leg(from, vault, UserKey(user), amount)
             r == TokenTransfer(b, leg, {UserKey(user)})
         IN  IF r.ok THEN Outcome("Ok", r.bal, <<leg>>)
             ELSE Outcome("LedgerRejected", r.bal, <<leg>>)

DepositIx(b, user, from, vault_authority, vault, amount) ==
    LET v == DepositAccounts(user, from, vault_authority, vault)
    IN  IF v # "Ok" THEN Outcome(v, b, <<>>)
        ELSE deposit(b, user, from, vault, amount)

----------------------------------------------------------------------------
(* vault_transfer *)

\* The constraints of the VaultTransfer accounts, in the order of its fields.
VaultTransferAccounts(authority, vault_authority, vault, to) ==
    IF vault_authority # FindProgramAddress(VAULT_AUTHORITY_SEED, authority)
    THEN "ConstraintSeeds"
    ELSE IF TokenOwner(vault) # vault_authority THEN "Unauthorized"
    ELSE "Ok"

\* Mutant: the signer seeds take the canonical bump, whatever the caller gave.
SignerSeedsKeyCanonical(authority, vault_bump) ==
    FindProgramAddress(VAULT_AUTHORITY_SEED, authority)

\* The address the signer seeds [VAULT_AUTHORITY_SEED, authority, vault_bump]
\* sign for.
SignerSeedsKey(authority, vault_bump) ==
    CreateProgramAddress(VAULT_AUTHORITY_SEED, authority, vault_bump)

\* Mutant: the balance check is strict.
vault_transfer_strict(b, authority, vault_authority, vault, to, amount, vault_bump) ==
    IF ~(b[vault] > amount)
    THEN Outcome("InsufficientBalance", b, <<>>)
    ELSE IF ~(TokenMint(vault) = TokenMint(to))
    THEN Outcome("InvalidMint", b, <<>>)
    ELSE LET derived == SignerSeedsKey(authority, vault_bump)
             leg == Leg(vault, to, vault_authority, amount)
             r == IF derived = NoKey THEN [ok |-> FALSE, bal |-> b]
                  ELSE TokenTransfer(b, leg, {UserKey(authority), derived})
         IN  IF r.ok THEN Outcome("Ok", r.bal, <<leg>>)
             ELSE Outcome("LedgerRejected", r.bal, <<leg>>)

\* The handler, on validated accounts.  The CPI is rejected when the signer
\* seeds yield no address; otherwise the address they yield has signed.
vault_transfer(b, authority, vault_authority, vault, to, amount, vault_bump) ==
    IF ~(b[vault] >= amount)
    THEN Outcome("InsufficientBalance", b, <<>>)
    ELSE IF ~(TokenMint(vault) = TokenMint(to))
    THEN Outcome("InvalidMint", b, <<>>)
    ELSE LET derived == SignerSeedsKey(authority, vault_bump)
             leg == Leg(vault, to, vault_authority, amount)
             r == IF derived = NoKey THEN [ok |-> FALSE, bal |-> b]
                  ELSE TokenTransfer(b, leg, {UserKey(authority), derived})
         IN  IF r.ok THEN Outcome("Ok", r.bal, <<leg>>)
             ELSE Outcome("LedgerRejected", r.bal, <<leg>>)

VaultTransferIx(b, authority, vault_authority, vault, to, amount, vault_bump) ==
    LET v == VaultTransferAccounts(authority, vault_authority, vault, to)
    IN  IF v # "Ok" THEN Outcome(v, b, <<>>)
        ELSE vault_transfer(b, authority, vault_authority, vault, to, amount,
                            vault_bump)

----------------------------------------------------------------------------
(* initialize and the ProtocolConfig account *)

NoConfig ==
    [exists |-> FALSE, authority |-> NoKey, fee_recipient |-> NoKey,
     fee_bps |-> 0, bump |-> 0]

\* Mutant: init_if_needed, an existing account is accepted.
InitializeAccountsIfNeeded(c, protocol_config) ==
    IF protocol_config # FindProgramAddress(PROTOCOL_CONFIG_SEED, "")
    THEN "ConstraintSeeds"
    ELSE "Ok"

\* The constraints of the Initialize accounts: the address is the one derived
\* from PROTOCOL_CONFIG_SEED, and `init` creates the account, which fails when
\* it exists.
InitializeAccounts(c, protocol_config) ==
    IF protocol_config # FindProgramAddress(PROTOCOL_CONFIG_SEED, "")
    THEN "ConstraintSeeds"
    ELSE IF c.exists THEN "AccountInUse"
    ELSE "Ok"

\* The handler: the config it writes.
initialize(authority, fee_recipient) ==
    [exists |-> TRUE,
     authority |-> UserKey(authority),
     fee_recipient |-> fee_recipient,
     fee_bps |-> PROTOCOL_FEE_BPS,
     bump |-> CanonicalBump(PROTOCOL_CONFIG_SEED, "")]

----------------------------------------------------------------------------
(* State machine.  bal: the amount of every token account; cfg: the        *)
(* ProtocolConfig account; last: the latest instruction, its inputs, its   *)
(* result, the calls it issued and the state it started from; hist: the    *)
(* instruction before it (kept by the vault specification only).           *)

Call(op, user, from, to, fee_acct, pda, recipient, bump, amount, out) ==
    [op |-> op, user |-> user, from |-> from, to |-> to,
     fee_acct |-> fee_acct, pda |-> pda, recipient |-> recipient,
     bump |-> bump, amount |-> amount,
     result |-> out.result, legs |-> out.legs, pre |-> bal, cfg0 |-> cfg]

NoCall ==
    [op |-> "none", user |-> "", from |-> NoAccount, to |-> NoAccount,
     fee_acct |-> NoAccount, pda |-> NoKey, recipient |-> NoKey,
     bump |-> 0, amount |-> 0,
     result |-> "Ok", legs |-> <<>>,
     pre |-> [a \in Accounts |-> InitialBalance(a)], cfg0 |-> NoConfig]

Init ==
    /\ bal = [a \in Accounts |-> InitialBalance(a)]
    /\ cfg = NoConfig
    /\ last = NoCall
    /\ hist = NoCall
    /\ steps = 0

Initialize(AUTH, RCPT, ADDR) ==
    \E authority \in AUTH, fee_recipient \in RCPT, protocol_config \in ADDR :
        LET v == InitializeAccounts(cfg, protocol_config)
        IN  /\ cfg' = IF v = "Ok" THEN initialize(authority, fee_recipient)
                      ELSE cfg
            /\ last' = Call("initialize", authority, NoAccount, NoAccount,
                            NoAccount, protocol_config, fee_recipient, 0, 0,
                            Outcome(v, bal, <<>>))
            /\ UNCHANGED bal

TransferTokens(USER, FROM, TO, AMT) ==
    \E user \in USER, from \in FROM, to \in TO, amount \in AMT :
        LET out == TransferTokensIx(bal, user, from, to, amount)
        IN  /\ bal' = Commit(bal, out)
            /\ last' = Call("transfer_tokens", user, from, to, NoAccount,
                            NoKey, NoKey, 0, amount, out)
            /\ UNCHANGED cfg

TransferWithFee(USER, FROM, TO, FEE, AMT) ==
    \E user \in USER, from \in FROM, to \in TO, protocol_fee_account \in FEE,
       amount \in AMT :
        LET out == TransferWithFeeIx(bal, user, from, to,
                                     protocol_fee_account, amount)
        IN  /\ bal' = Commit(bal, out)
            /\ last' = Call("transfer_with_fee", user, from, to,
                            protocol_fee_account, NoKey, NoKey, 0, amount, out)
            /\ UNCHANGED cfg

Deposit(USER, FROM, VA, VAULT, AMT) ==
    \E user \in USER, from \in FROM, vault_authority \in VA, vault \in VAULT,
       amount \in AMT :
        LET out == DepositIx(bal, user, from, vault_authority, vault, amount)
        IN  /\ bal' = Commit(bal, out)
            /\ last' = Call("deposit", user, from, vault, NoAccount,
                            vault_authority, NoKey, 0, amount, out)
            /\ UNCHANGED cfg

VaultTransfer(AUTH, VA, VAULT, TO, AMT, BUMP) ==
    \E authority \in AUTH, vault_authority \in VA, vault \in VAULT, to \in TO,
       amount \in AMT, vault_bump \in BUMP :
        LET out == VaultTransferIx(bal, authority, vault_authority, vault, to,
                                   amount, vault_bump)
        IN  /\ bal' = Commit(bal, out)
            /\ last' = Call("vault_transfer", authority, vault, to, NoAccount,
                            vault_authority, NoKey, vault_bump, amount, out)
            /\ UNCHANGED cfg

\* One more instruction, while the behaviour has room for it.
Tick == steps < MaxSteps /\ steps' = steps + 1

VaultAuthorities == {FindProgramAddress(VAULT_AUTHORITY_SEED, u) : u \in Users}

ConfigAddresses ==
    {FindProgramAddress(PROTOCOL_CONFIG_SEED, ""),
     PdaKey(PROTOCOL_CONFIG_SEED, "", 0)}

UserKeys == {UserKey(u) : u \in Users}

----------------------------------------------------------------------------
(* Spec: the five instructions, in any order. *)

Amounts == {400, 1000, U64_MAX}

InitializeStep ==
    /\ Tick
    /\ Initialize(Users, UserKeys, ConfigAddresses)
    /\ UNCHANGED hist

TransferTokensStep ==
    /\ Tick
    /\ TransferTokens(Users, {"a1", "a2", "v1"}, {"a1", "a3"}, Amounts)
    /\ UNCHANGED hist

TransferWithFeeStep ==
    /\ Tick
    /\ TransferWithFee(Users, {"a1", "a2", "v1"}, {"a1", "a3"}, {"f1", "a3"},
                       Amounts)
    /\ UNCHANGED hist

DepositStep ==
    /\ Tick
    /\ Deposit(Users, {"a1", "a2", "v1"}, VaultAuthorities, {"v1", "a2"},
               Amounts)
    /\ UNCHANGED hist

VaultTransferStep ==
    /\ Tick
    /\ VaultTransfer(Users, VaultAuthorities, {"v1", "a2"}, {"a2", "a3"},
                     Amounts, Bumps)
    /\ UNCHANGED hist

Next ==
    \/ InitializeStep
    \/ TransferTokensStep
    \/ TransferWithFeeStep
    \/ DepositStep
    \/ VaultTransferStep

Spec == Init /\ [][Next]_vars

----------------------------------------------------------------------------
(* SpecFee: transfers with a fee, over amounts on both sides of every edge *)
(* of the fee computation.                                                 *)

FeeAmounts ==
    {0, 1, 99, 100, 101, 199, 200, 9999, 10000, 10001, Big - 1, Big, Big + 1}

FeeTransferTokensStep ==
    /\ Tick
    /\ TransferTokens({"u1"}, {"a1"}, {"a2", "f1"}, {1, 10000})
    /\ UNCHANGED hist

FeeTransferWithFeeStep ==
    /\ Tick
    /\ TransferWithFee(Users, {"a1", "a2"}, {"a2", "a3"}, {"f1", "a2"},
                       FeeAmounts)
    /\ UNCHANGED hist

NextFee == FeeTransferTokensStep \/ FeeTransferWithFeeStep

SpecFee == Init /\ [][NextFee]_vars

----------------------------------------------------------------------------
(* SpecVault: deposits and withdrawals; hist keeps the deposit that came   *)
(* right before the latest instruction, if one did.                        *)

Remember == hist' = IF last.op = "deposit" THEN last ELSE NoCall

VaultAmounts == {0, 400, 1000}

VaultDepositStep ==
    /\ Tick
    /\ Deposit(Users, {"a1", "a2", "a3"}, VaultAuthorities, {"v1"},
               VaultAmounts)
    /\ Remember

VaultWithdrawStep ==
    /\ Tick
    /\ VaultTransfer(Users, VaultAuthorities, {"v1"}, {"a2", "a3", "v1"},
                     VaultAmounts, Bumps)
    /\ Remember

NextVault == VaultDepositStep \/ VaultWithdrawStep

SpecVault == Init /\ [][NextVault]_vars

----------------------------------------------------------------------------
(* Properties.  They read the latest instruction off `last`: its inputs,   *)
(* its result, the calls it issued (last.legs), the balances it started    *)
(* from (last.pre) and the balances it left (bal).                         *)

\* b after x has moved from one account to another.
Moved(b, from, to, x) == [b EXCEPT ![from] = @ - x, ![to] = @ + x]

\* The signer owns the source account.
SignerOwnsSource == TokenOwner(last.from) = UserKey(last.user)

\* The mints of the accounts of a transfer_with_fee are all equal.
FeeMintsMatch ==
    /\ TokenMint(last.to) = TokenMint(last.from)
    /\ TokenMint(last.fee_acct) = TokenMint(last.from)

\* A transfer_with_fee by the owner of the source, within its balance and
\* with matching mints.
FeePreconditions ==
    /\ last.op = "transfer_with_fee"
    /\ SignerOwnsSource
    /\ last.amount <= last.pre[last.from]
    /\ FeeMintsMatch

\* The amounts of the calls that credit account `to`, summed.
RECURSIVE Credited(_, _)
Credited(legs, to) ==
    IF legs = <<>> THEN 0
    ELSE (IF Head(legs).to = to THEN Head(legs).amount ELSE 0)
         + Credited(Tail(legs), to)

\* C1: for every amount whose product with 100 fits the amount type,
\* transfer_with_fee computes fee = floor(amount * 100 / 10000) and
\* recipient_amount = amount - fee, which add up to amount (10000 gives 100
\* and 9900, 1 gives 0 and 1): a successful call moves exactly fee to the fee
\* account and recipient_amount to the recipient, and with three distinct
\* accounts the source loses amount, the fee account gains fee and the
\* recipient gains recipient_amount.
C1_FeeSplitExact ==
    LET a == last.amount
        f == (a * 100) \div 10000
        r == a - f
        distinct == Cardinality({last.from, last.to, last.fee_acct}) = 3
    IN  (/\ last.op = "transfer_with_fee"
         /\ a * 100 <= U64_MAX
         /\ last.result = "Ok")
        => /\ f + r = a
           /\ a = 10000 => (f = 100 /\ r = 9900)
           /\ a = 1 => (f = 0 /\ r = 1)
           /\ \A l \in 1..Len(last.legs) : last.legs[l].from = last.from
           /\ last.to # last.fee_acct =>
                 /\ Credited(last.legs, last.fee_acct) = f
                 /\ Credited(last.legs, last.to) = r
           /\ last.to = last.fee_acct =>
                 Credited(last.legs, last.to) = a
           /\ distinct =>
                 /\ bal[last.from] = last.pre[last.from] - a
                 /\ bal[last.fee_acct] = last.pre[last.fee_acct] + f
                 /\ bal[last.to] = last.pre[last.to] + r
                 /\ \A x \in Accounts \ {last.from, last.to, last.fee_acct} :
                        bal[x] = last.pre[x]

\* A successful split with a fee and three distinct accounts.
C1_Witness ==
    /\ last.op = "transfer_with_fee"
    /\ last.result = "Ok"
    /\ last.amount = 10000
    /\ Cardinality({last.from, last.to, last.fee_acct}) = 3
    /\ bal[last.fee_acct] = last.pre[last.fee_acct] + 100
    /\ bal[last.to] = last.pre[last.to] + 9900

\* C2: a transfer_with_fee whose preconditions hold issues the fee leg
\* (from -> protocol_fee_account, fee) exactly when fee > 0 and the recipient
\* leg (from -> to, recipient_amount) exactly when recipient_amount > 0, the
\* fee leg first, both authorized by the signer; amount 0 issues no call and
\* succeeds, amount 1 issues the recipient leg alone.
C2_LegsIssued ==
    LET a == last.amount
        f == (a * 100) \div 10000
        r == a - f
        feeLeg == Leg(last.from, last.fee_acct, UserKey(last.user), f)
        toLeg == Leg(last.from, last.to, UserKey(last.user), r)
    IN  (FeePreconditions /\ a * 100 <= U64_MAX)
        => /\ last.legs = (IF f > 0 THEN <<feeLeg>> ELSE <<>>)
                          \o (IF r > 0 THEN <<toLeg>> ELSE <<>>)
           /\ a = 0 => (last.legs = <<>> /\ last.result = "Ok")
           /\ a = 1 => last.legs = <<toLeg>>

\* Both legs issued, the fee leg first.
C2_Witness ==
    /\ FeePreconditions
    /\ last.result = "Ok"
    /\ Len(last.legs) = 2
    /\ last.legs[1].to = last.fee_acct
    /\ last.legs[2].to = last.to
    /\ last.to # last.fee_acct

\* C5: a transfer_with_fee by the owner of the source, within its balance and
\* with matching mints, whose amount * 100 exceeds the largest amount fails
\* with Overflow, issues no call and moves nothing.
C5_OverflowReported ==
    (FeePreconditions /\ last.amount * 100 > U64_MAX)
    => /\ last.result = "Overflow"
       /\ last.legs = <<>>
       /\ bal = last.pre

\* An overflowing amount within the balance of the source.
C5_Witness ==
    /\ FeePreconditions
    /\ last.amount * 100 > U64_MAX
    /\ last.result = "Overflow"

\* The accounts of a vault_transfer pass validation: the vault authority
\* supplied is the one derived from the signer, and it owns the vault.
VaultAccountsValid(c) ==
    /\ c.pda = FindProgramAddress(VAULT_AUTHORITY_SEED, c.user)
    /\ TokenOwner(c.from) = c.pda

\* A vault_transfer by the user whose derived authority owns the vault, within
\* the vault's balance and to a destination of the same mint.
WithdrawPreconditions(c) ==
    /\ c.op = "vault_transfer"
    /\ VaultAccountsValid(c)
    /\ c.amount <= c.pre[c.from]
    /\ TokenMint(c.from) = TokenMint(c.to)

NonCanonicalBump(c) == c.bump # CanonicalBump(VAULT_AUTHORITY_SEED, c.user)

DepositPreconditions(c) ==
    /\ c.op = "deposit"
    /\ TokenOwner(c.from) = UserKey(c.user)
    /\ c.pda = FindProgramAddress(VAULT_AUTHORITY_SEED, c.user)
    /\ TokenOwner(c.to) = c.pda
    /\ c.amount <= c.pre[c.from]
    /\ TokenMint(c.from) = TokenMint(c.to)

\* C9: a deposit of d by user u into u's vault succeeds and moves d from the
\* source to the vault; a vault_transfer of w by u with the canonical bump
\* succeeds and moves w from the vault to the destination; and when the
\* second follows the first on the same vault, the vault ends at its value
\* before the deposit + d - w, the destination has gained w and the source
\* has lost d (deposit 1000, withdraw 400: 600 left in an empty vault).
C9_DepositWithdrawRoundTrip ==
    LET d == hist.amount
        w == last.amount
        vault == last.from
    IN
    /\ DepositPreconditions(last) =>
          /\ last.result = "Ok"
          /\ bal = Moved(last.pre, last.from, last.to, last.amount)
    /\ (WithdrawPreconditions(last) /\ ~NonCanonicalBump(last)) =>
          /\ last.result = "Ok"
          /\ bal = Moved(last.pre, last.from, last.to, last.amount)
    /\ (/\ DepositPreconditions(hist)
        /\ WithdrawPreconditions(last) /\ ~NonCanonicalBump(last)
        /\ last.user = hist.user /\ vault = hist.to /\ last.to # vault) =>
          /\ hist.result = "Ok" /\ last.result = "Ok"
          /\ bal[vault] = hist.pre[vault] + d - w
          /\ bal[last.to] = last.pre[last.to] + w
          /\ last.pre[hist.from] = hist.pre[hist.from] - d
          /\ (d = 1000 /\ w = 400 /\ hist.pre[vault] = 0) => bal[vault] = 600

\* Deposit 1000, then withdraw 400 to another account: 600 left.
C9_Witness ==
    /\ DepositPreconditions(hist) /\ hist.amount = 1000
    /\ hist.pre[hist.to] = 0
    /\ WithdrawPreconditions(last) /\ last.amount = 400
    /\ last.from = hist.to /\ last.to # last.from
    /\ last.result = "Ok"
    /\ bal[last.from] = 600

DepositAccountsValid(c) ==
    /\ TokenOwner(c.from) = UserKey(c.user)
    /\ c.pda = FindProgramAddress(VAULT_AUTHORITY_SEED, c.user)
    /\ TokenOwner(c.to) = c.pda

\* The latest instruction moves tokens and was invoked by the owner of its
\* source account, with accounts that pass validation.
InvokedByOwnerOfSource ==
    \/ last.op \in {"transfer_tokens", "transfer_with_fee"} /\ SignerOwnsSource
    \/ last.op = "deposit" /\ DepositAccountsValid(last)
    \/ last.op = "vault_transfer" /\ VaultAccountsValid(last)

\* C6: a transfer_tokens, transfer_with_fee, deposit or vault_transfer
\* invoked by the owner of the source account with an amount greater than
\* the source's balance at that moment fails with InsufficientBalance and
\* issues no call, whatever instructions came before.
C6_InsufficientBalance ==
    (InvokedByOwnerOfSource /\ last.amount > last.pre[last.from])
    => /\ last.result = "InsufficientBalance"
       /\ last.legs = <<>>
       /\ bal = last.pre

\* An amount the source held at the start and no longer holds.
C6_Witness ==
    /\ InvokedByOwnerOfSource
    /\ last.amount > last.pre[last.from]
    /\ last.amount <= InitialBalance(last.from)
    /\ last.result = "InsufficientBalance"

\* The mints of the accounts of the latest transfer are not all equal.
MintsDiffer ==
    \/ last.op = "transfer_tokens" /\ TokenMint(last.from) # TokenMint(last.to)
    \/ last.op = "transfer_with_fee" /\ ~FeeMintsMatch

\* C7, as stated: a transfer_tokens whose mints differ, and a
\* transfer_with_fee whose three mints are not all equal, fail with
\* InvalidMint and issue no call, for every amount and every balance of the
\* source.
C7_AsStated ==
    (MintsDiffer /\ SignerOwnsSource)
    => (last.result = "InvalidMint" /\ last.legs = <<>>)

\* C7, amended: they do when the amount is within the balance of the source;
\* a greater amount fails with InsufficientBalance, which is checked first.
C7_InvalidMint ==
    /\ (MintsDiffer /\ SignerOwnsSource /\ last.amount <= last.pre[last.from])
       => (last.result = "InvalidMint" /\ last.legs = <<>> /\ bal = last.pre)
    /\ (MintsDiffer /\ SignerOwnsSource /\ last.amount > last.pre[last.from])
       => (last.result = "InsufficientBalance" /\ last.legs = <<>>)

\* A split whose fee account alone is of another mint.
C7_Witness ==
    /\ last.op = "transfer_with_fee"
    /\ SignerOwnsSource
    /\ TokenMint(last.to) = TokenMint(last.from)
    /\ TokenMint(last.fee_acct) # TokenMint(last.from)
    /\ last.amount <= last.pre[last.from]
    /\ last.result = "InvalidMint"

\* C8: the config is written once: an initialize while there is none stores
\* the caller as authority, the fee recipient given and fee_bps = 100; an
\* initialize while there is one fails; and no instruction changes a config
\* that exists, so that it stays the one first written.
C8_ConfigWrittenOnce ==
    /\ cfg.exists => cfg.fee_bps = 100
    /\ last.cfg0.exists => cfg = last.cfg0
    /\ (last.op = "initialize" /\ last.cfg0.exists) => last.result # "Ok"
    /\ (/\ last.op = "initialize" /\ ~last.cfg0.exists
        /\ last.pda = FindProgramAddress(PROTOCOL_CONFIG_SEED, "")) =>
          /\ last.result = "Ok"
          /\ cfg.exists
          /\ cfg.authority = UserKey(last.user)
          /\ cfg.fee_recipient = last.recipient
          /\ cfg.fee_bps = 100
    /\ (last.op # "initialize" \/ last.result # "Ok") => cfg = last.cfg0

\* A second initialize, by another caller, refused.
C8_Witness ==
    /\ last.op = "initialize"
    /\ last.cfg0.exists
    /\ last.pda = FindProgramAddress(PROTOCOL_CONFIG_SEED, "")
    /\ UserKey(last.user) # cfg.authority
    /\ last.recipient # cfg.fee_recipient
    /\ last.result # "Ok"

\* The token accounts owned by a derived vault authority, and the user it
\* is derived from.
Vaults ==
    {a \in Accounts : /\ TokenOwner(a).kind = "pda"
                      /\ TokenOwner(a).tag = VAULT_AUTHORITY_SEED}

DerivingUser(v) == TokenOwner(v).of

\* The latest instruction names vault v as its source and is signed by a
\* user other than the one v's authority is derived from.
ForeignDebit(v) ==
    /\ last.op \in {"transfer_tokens", "transfer_with_fee", "deposit",
                    "vault_transfer"}
    /\ last.from = v
    /\ last.user # DerivingUser(v)

\* The balance of a vault goes down only by a successful vault_transfer signed
\* by the user its authority is derived from, and a deposit never lowers it.
VaultDebitedByOwnerOnly ==
    \A v \in Vaults :
        /\ bal[v] < last.pre[v] =>
              /\ last.op = "vault_transfer"
              /\ last.result = "Ok"
              /\ last.from = v
              /\ last.user = DerivingUser(v)
        /\ last.op = "deposit" => bal[v] >= last.pre[v]

\* C10, as stated: vault custody is exclusive to the deriving user, and every
\* instruction signed by another user that names the vault as its source
\* fails with Unauthorized.
C10_AsStated ==
    /\ VaultDebitedByOwnerOnly
    /\ \A v \in Vaults :
          ForeignDebit(v) => (last.result = "Unauthorized" /\ bal = last.pre)

\* C10, amended: vault custody is exclusive to the deriving user; an
\* instruction signed by another user that names the vault as its source
\* fails with Unauthorized, except a vault_transfer whose vault authority
\* account is not the one derived from its signer, which fails the seeds
\* constraint instead.
C10_VaultCustody ==
    /\ VaultDebitedByOwnerOnly
    /\ \A v \in Vaults :
          ForeignDebit(v) =>
              /\ bal = last.pre
              /\ last.legs = <<>>
              /\ IF /\ last.op = "vault_transfer"
                    /\ last.pda # FindProgramAddress(VAULT_AUTHORITY_SEED,
                                                     last.user)
                 THEN last.result = "ConstraintSeeds"
                 ELSE last.result = "Unauthorized"

\* Another user's attempt on a funded vault, for an amount it holds.
C10_Witness ==
    \E v \in Vaults :
        /\ ForeignDebit(v)
        /\ last.pre[v] > 0
        /\ last.amount > 0
        /\ last.amount <= last.pre[v]
        /\ last.result = "Unauthorized"

====
